---------------------------- MODULE Spec2Model ----------------------------
(***************************************************************************)
(* Model of main.js: the update() step of the two-paddle ball game, the    *)
(* keydown/keyup handlers and the frame loop that calls update().          *)
(*                                                                         *)
(* JavaScript numbers are IEEE-754 binary64.  Every number update()        *)
(* touches is an integer multiple of 2^-59 of magnitude below 2, so a      *)
(* number is modelled by that integer N, held in two limbs because it      *)
(* exceeds 32 bits: N = hi * Base + lo with 0 <= lo < Base.  Addition is   *)
(* the exact integer sum rounded to 53 significant bits, ties to even, as  *)
(* the hardware does it.  0 and -0 are one value: the source adds,         *)
(* negates and compares, none of which tells them apart.                   *)
(***************************************************************************)
EXTENDS Integers, Sequences, FiniteSets, TLC

VARIABLES keys, paddles, ball, ticks

vars == <<keys, paddles, ball, ticks>>

---------------------------------------------------------------------------
(* binary64 arithmetic on multiples of 2^-59 *)

Base == 2^30

\* hi*Base + lo with lo brought back into 0 .. Base-1
Norm(h, l) == [hi |-> h + (l \div Base), lo |-> l % Base]

Zero == [hi |-> 0, lo |-> 0]

\* the exact sum of two numbers, before rounding
ExactAdd(a, b) == Norm(a.hi + b.hi, a.lo + b.lo)

\* unary minus and "*= -1": exact in binary64
Neg(a) == Norm(0 - a.hi, 0 - a.lo)

\* the < and > of the source
Lt(a, b) == a.hi < b.hi \/ (a.hi = b.hi /\ a.lo < b.lo)

Gt(a, b) == Lt(b, a)

\* spacing of binary64 at magnitude hi*Base + lo, in units of 2^-59:
\* 1 below 2^53, doubling with every further bit
RECURSIVE UlpFrom(_, _)
UlpFrom(h, u) == IF h < (2^23) * u THEN u ELSE UlpFrom(h, 2 * u)

Ulp(m) == UlpFrom(m.hi, 1)

\* round a non-negative exact value to 53 significant bits, ties to even
RoundMag(m) ==
    LET u    == Ulp(m)
        r    == m.lo % u
        q    == m.lo - r
        half == u \div 2
        up   == r > half \/ (u > 1 /\ r = half /\ (q \div u) % 2 = 1)
    IN  IF up THEN Norm(m.hi, q + u) ELSE [hi |-> m.hi, lo |-> q]

Round(a) == IF a.hi < 0 THEN Neg(RoundMag(Neg(a))) ELSE RoundMag(a)

\* a + b and a - b of the source
Fadd(a, b) == Round(ExactAdd(a, b))

Fsub(a, b) == Round(ExactAdd(a, Neg(b)))

\* a / 2 of the source: exact for the even mantissas it is applied to
Half(a) == [hi |-> a.hi \div 2, lo |-> (a.hi % 2) * (Base \div 2) + (a.lo \div 2)]

Fmax(a, b) == IF Lt(a, b) THEN b ELSE a

Fmin(a, b) == IF Lt(b, a) THEN b ELSE a

---------------------------------------------------------------------------
(* the literals of main.js as binary64 values *)

\* 1
One == [hi |-> 536870912, lo |-> 0]

\* 0.01 = 0x1.47ae147ae147bp-7
BallSpeed == [hi |-> 5368709, lo |-> 128849019]

\* 0.02 = 0x1.47ae147ae147bp-6
PaddleSpeed == [hi |-> 10737418, lo |-> 257698038]

\* 0.9 = 0x1.ccccccccccccdp-1
PaddleX == [hi |-> 483183820, lo |-> 858993472]

\* 0.02, the paddles' width and the ball's size
PaddleWidth == [hi |-> 10737418, lo |-> 257698038]

BallSize == [hi |-> 10737418, lo |-> 257698038]

\* 0.2 = 0x1.999999999999ap-3
PaddleHeight == [hi |-> 107374182, lo |-> 429496736]

---------------------------------------------------------------------------
(* state *)

Sides == {"left", "right"}

UpKey == [left |-> "w", right |-> "ArrowUp"]

DownKey == [left |-> "s", right |-> "ArrowDown"]

\* the key names the model's keyboard can send: the four the game reads and
\* one it does not
Keys == {"w", "s", "ArrowUp", "ArrowDown", "Enter"}

\* keys[k] read as a condition: undefined (never written) is falsy
Held(ks, k) == k \in DOMAIN ks /\ ks[k]

Init ==
    /\ keys = [k \in {} |-> FALSE]
    /\ paddles =
         [left  |-> [x |-> Neg(PaddleX), y |-> Zero, width |-> PaddleWidth,
                     height |-> PaddleHeight, dy |-> Zero],
          right |-> [x |-> PaddleX, y |-> Zero, width |-> PaddleWidth,
                     height |-> PaddleHeight, dy |-> Zero]]
    /\ ball = [x |-> Zero, y |-> Zero, dx |-> BallSpeed, dy |-> BallSpeed,
               size |-> BallSize]
    /\ ticks = 0

---------------------------------------------------------------------------
(* the handlers *)

\* keys[e.key] = v
SetKey(ks, k, v) == [j \in DOMAIN ks \cup {k} |-> IF j = k THEN v ELSE ks[j]]

\* mutant: the handler replaces the mapping by one holding only k
KeyDownClobber(k) ==
    /\ keys' = [j \in {k} |-> TRUE]
    /\ UNCHANGED <<paddles, ball, ticks>>

KeyDown(k) ==
    /\ keys' = SetKey(keys, k, TRUE)
    /\ UNCHANGED <<paddles, ball, ticks>>

KeyUp(k) ==
    /\ keys' = SetKey(keys, k, FALSE)
    /\ UNCHANGED <<paddles, ball, ticks>>

---------------------------------------------------------------------------
(* update() *)

\* mutant: the down key is tested first
PaddleDyDownFirst(ks, s) ==
    IF Held(ks, DownKey[s]) THEN Neg(PaddleSpeed)
    ELSE IF Held(ks, UpKey[s]) THEN PaddleSpeed
    ELSE Zero

\* the velocity the paddle of side s gets from the keys
PaddleDy(ks, s) ==
    IF Held(ks, UpKey[s]) THEN PaddleSpeed
    ELSE IF Held(ks, DownKey[s]) THEN Neg(PaddleSpeed)
    ELSE Zero

\* mutant: the Math.min against the upper bound is missing
ClampYNoUpper(p, y) == Fmax(Fadd(Neg(One), Half(p.height)), y)

\* Math.max(-1 + height / 2, Math.min(1 - height / 2, y))
ClampY(p, y) ==
    Fmax(Fadd(Neg(One), Half(p.height)), Fmin(Fsub(One, Half(p.height)), y))

\* a paddle after the control, integration and clamp statements
MovePaddle(p, dy) == [p EXCEPT !.dy = dy, !.y = ClampY(p, Fadd(p.y, dy))]

\* mutant: only the top boundary is tested
HitsWallTopOnly(b) == Gt(b.y, Fsub(One, b.size))

\* mutant: only the bottom boundary is tested
HitsWallBottomOnly(b) == Lt(b.y, Fadd(Neg(One), b.size))

\* mutant: the boundaries are at size and -size
HitsWallNoOne(b) == Gt(b.y, b.size) \/ Lt(b.y, Neg(b.size))

\* ball.y > 1 - ball.size || ball.y < -1 + ball.size
HitsWall(b) ==
    \/ Gt(b.y, Fsub(One, b.size))
    \/ Lt(b.y, Fadd(Neg(One), b.size))

\* mutant: the first test is against the paddle's x, not x + width
HitsPaddleNoWidth(b, p) ==
    /\ Lt(b.x, p.x)
    /\ Gt(b.x, Fsub(p.x, p.width))
    /\ Lt(b.y, Fadd(p.y, Half(p.height)))
    /\ Gt(b.y, Fsub(p.y, Half(p.height)))

\* the four-way test of the ball against one paddle
HitsPaddle(b, p) ==
    /\ Lt(b.x, Fadd(p.x, p.width))
    /\ Gt(b.x, Fsub(p.x, p.width))
    /\ Lt(b.y, Fadd(p.y, Half(p.height)))
    /\ Gt(b.y, Fsub(p.y, Half(p.height)))

\* mutant: only the left bound is tested
PastPaddlesLeftOnly(b) == Lt(b.x, Neg(One))

\* ball.x > 1 || ball.x < -1
PastPaddles(b) == Gt(b.x, One) \/ Lt(b.x, Neg(One))

\* mutant: the reset keeps dx
MoveBallKeepDx(b, ps) ==
    LET b1 == [b EXCEPT !.x = Fadd(b.x, b.dx), !.y = Fadd(b.y, b.dy)]
        b2 == IF HitsWall(b1) THEN [b1 EXCEPT !.dy = Neg(b1.dy)] ELSE b1
        b3 == IF HitsPaddle(b2, ps.left) THEN [b2 EXCEPT !.dx = Neg(b2.dx)] ELSE b2
        b4 == IF HitsPaddle(b3, ps.right) THEN [b3 EXCEPT !.dx = Neg(b3.dx)] ELSE b3
    IN  IF PastPaddles(b4)
        THEN [b4 EXCEPT !.x = Zero, !.y = Zero]
        ELSE b4

\* the ball after the statements of lines 103-132, given the moved paddles
MoveBall(b, ps) ==
    LET b1 == [b EXCEPT !.x = Fadd(b.x, b.dx), !.y = Fadd(b.y, b.dy)]
        b2 == IF HitsWall(b1) THEN [b1 EXCEPT !.dy = Neg(b1.dy)] ELSE b1
        b3 == IF HitsPaddle(b2, ps.left) THEN [b2 EXCEPT !.dx = Neg(b2.dx)] ELSE b2
        b4 == IF HitsPaddle(b3, ps.right) THEN [b3 EXCEPT !.dx = Neg(b3.dx)] ELSE b3
    IN  IF PastPaddles(b4)
        THEN [b4 EXCEPT !.x = Zero, !.y = Zero, !.dx = Neg(b4.dx)]
        ELSE b4

MovePaddles(ps, ks) == [s \in Sides |-> MovePaddle(ps[s], PaddleDy(ks, s))]

\* one frame of gameLoop: update() (render() changes no state)
update ==
    /\ paddles' = MovePaddles(paddles, keys)
    /\ ball' = MoveBall(ball, paddles')
    /\ ticks' = ticks + 1
    /\ UNCHANGED keys

---------------------------------------------------------------------------
(* specifications *)

MaxTicks == 4

Next ==
    \/ \E k \in Keys : KeyDown(k)
    \/ \E k \in Keys : KeyUp(k)
    \/ ticks < MaxTicks /\ update

Spec == Init /\ [][Next]_vars

\* One player at the keyboard: every key event is for a key of the same
\* paddle as the keys written so far.
SideOf(k) == IF k \in {UpKey.left, DownKey.left} THEN "left" ELSE "right"

GameKeys == {UpKey[s] : s \in Sides} \cup {DownKey[s] : s \in Sides}

Solo(k) == \A j \in DOMAIN keys : SideOf(j) = SideOf(k)

MaxTicksSolo == 60

NextSolo ==
    \/ \E k \in GameKeys : Solo(k) /\ KeyDown(k)
    \/ \E k \in GameKeys : Solo(k) /\ KeyUp(k)
    \/ ticks < MaxTicksSolo /\ update

SpecSolo == Init /\ [][NextSolo]_vars

\* One player chasing the ball: the right player with the up key or the
\* left player with the down key, the directions of the first two serves.
ChaseKeys == {UpKey.right, DownKey.left}

MaxTicksChase == 200

NextChase ==
    \/ \E k \in ChaseKeys : Solo(k) /\ KeyDown(k)
    \/ \E k \in ChaseKeys : Solo(k) /\ KeyUp(k)
    \/ ticks < MaxTicksChase /\ update

SpecChase == Init /\ [][NextChase]_vars

\* A long rally: one player, whose key events arrive only between frames
\* whose number is a multiple of KeyPeriod.
KeyPeriod == 10

MaxTicksRally == 300

KeyFrame == ticks % KeyPeriod = 0

NextRally ==
    \/ \E k \in GameKeys : Solo(k) /\ KeyFrame /\ KeyDown(k)
    \/ \E k \in GameKeys : Solo(k) /\ KeyFrame /\ KeyUp(k)
    \/ ticks < MaxTicksRally /\ update

SpecRally == Init /\ [][NextRally]_vars

\* Nobody presses a key: key-up events only.
MaxTicksIdle == 60

NextIdle ==
    \/ \E k \in Keys : KeyUp(k)
    \/ ticks < MaxTicksIdle /\ update

SpecIdle == Init /\ [][NextIdle]_vars

---------------------------------------------------------------------------
(* Properties.  Arithmetic in a property is evaluated as JavaScript would  *)
(* evaluate the same expression: in binary64, with Fadd, Fsub and Half.    *)

\* <= and Math.abs
Le(a, b) == ~Lt(b, a)

Abs(a) == IF a.hi < 0 THEN Neg(a) ELSE a

\* a step of the behaviour that is a call of update()
IsUpdate == ticks' = ticks + 1

\* a step that is a key event
IsKeyEvent == ticks' = ticks /\ keys' # keys

LowerY(p) == Fadd(Neg(One), Half(p.height))

UpperY(p) == Fsub(One, Half(p.height))

\* C1: in every reachable state both paddles' y lies in
\* [-1 + height/2, 1 - height/2], however long a key is held.
C1_PaddleYClamped ==
    \A s \in Sides :
        /\ Le(LowerY(paddles[s]), paddles[s].y)
        /\ Le(paddles[s].y, UpperY(paddles[s]))

\* the up key is held and the paddle has stopped at the upper bound
C1_Witness ==
    \E s \in Sides :
        /\ Held(keys, UpKey[s])
        /\ paddles[s].dy = PaddleSpeed
        /\ paddles[s].y = UpperY(paddles[s])

\* C2: in every reachable state each paddle, drawn from y - height to
\* y + height, lies within [-1, 1].
C2_PaddleInsideField ==
    \A s \in Sides :
        /\ Le(Neg(One), Fsub(paddles[s].y, paddles[s].height))
        /\ Le(Fadd(paddles[s].y, paddles[s].height), One)

\* the velocity C3 prescribes for a paddle from its two keys
C3_Velocity(up, down) ==
    IF Held(keys, up) THEN PaddleSpeed
    ELSE IF Held(keys, down) THEN Neg(PaddleSpeed)
    ELSE Zero

C3_Clamped(p, y) == Fmax(LowerY(p), Fmin(UpperY(p), y))

\* C3: after every update() each paddle's velocity is +0.02 if its up key
\* is held, else -0.02 if its down key is held, else 0 (up wins when both
\* are held), and its velocity and position are determined by its own
\* keys and its own previous position alone.
C3_VelocityFromOwnKeys ==
    [][IsUpdate =>
         /\ paddles'.left.dy = C3_Velocity("w", "s")
         /\ paddles'.right.dy = C3_Velocity("ArrowUp", "ArrowDown")
         /\ paddles'.left.y =
              C3_Clamped(paddles.left,
                         Fadd(paddles.left.y, C3_Velocity("w", "s")))
         /\ paddles'.right.y =
              C3_Clamped(paddles.right,
                         Fadd(paddles.right.y, C3_Velocity("ArrowUp", "ArrowDown")))]_vars

\* both keys of the left paddle are held and it has moved up, while the
\* right paddle, none of whose keys is held, has not moved
C3_Witness ==
    /\ Held(keys, "w") /\ Held(keys, "s")
    /\ ~Held(keys, "ArrowUp") /\ ~Held(keys, "ArrowDown")
    /\ paddles.left.dy = PaddleSpeed
    /\ Gt(paddles.left.y, Zero)
    /\ paddles.right.dy = Zero
    /\ paddles.right.y = Zero

\* the ball's position after the integration statements of a step
Integrated(b) == [x |-> Fadd(b.x, b.dx), y |-> Fadd(b.y, b.dy)]

BeyondWall(y, size) == Gt(y, Fsub(One, size)) \/ Lt(y, Fadd(Neg(One), size))

BeyondGoal(x) == Gt(x, One) \/ Lt(x, Neg(One))

\* C4: in every update() the ball's dy ends negated if y + dy is above
\* 1 - size or below -1 + size and unchanged otherwise, and the reflection
\* leaves y as integrated.
C4_WallReflection ==
    [][IsUpdate =>
         LET i == Integrated(ball) IN
         /\ ball'.dy = IF BeyondWall(i.y, ball.size) THEN Neg(ball.dy) ELSE ball.dy
         /\ ~BeyondGoal(i.x) => ball'.y = i.y]_vars

\* the ball is below the bottom boundary and already moving up
C4_Witness ==
    /\ Lt(ball.y, Fadd(Neg(One), ball.size))
    /\ ball.dy = BallSpeed

\* the ball at position i within the paddle's box, bounds included
InBoxClosed(i, p) ==
    /\ Le(Fsub(p.x, p.width), i.x) /\ Le(i.x, Fadd(p.x, p.width))
    /\ Le(Fsub(p.y, Half(p.height)), i.y) /\ Le(i.y, Fadd(p.y, Half(p.height)))

\* the same, bounds excluded
InBoxOpen(i, p) ==
    /\ Lt(Fsub(p.x, p.width), i.x) /\ Lt(i.x, Fadd(p.x, p.width))
    /\ Lt(Fsub(p.y, Half(p.height)), i.y) /\ Lt(i.y, Fadd(p.y, Half(p.height)))

\* C5 as stated: in every update(), a ball that after integration is within
\* a paddle's box, bounds included, ends the step with dx negated.
C5_Original ==
    [][IsUpdate =>
         \A s \in Sides :
             InBoxClosed(Integrated(ball), paddles'[s]) => ball'.dx = Neg(ball.dx)]_vars

\* C5 amended: in every update(), a ball that after integration is strictly
\* inside a paddle's box (the box bounds as binary64 computes them) ends the
\* step with dx negated.
C5_PaddleCollision ==
    [][IsUpdate =>
         \A s \in Sides :
             InBoxOpen(Integrated(ball), paddles'[s]) => ball'.dx = Neg(ball.dx)]_vars

\* the ball sits strictly inside the right paddle's box and moves away
C5_Witness ==
    /\ ticks > 0
    /\ InBoxOpen(ball, paddles.right)
    /\ ball.dx = Neg(BallSpeed)

\* C6: in every update(), a ball whose x after integration is beyond 1 or
\* -1 ends the step at (0, 0) with dx negated; otherwise it ends the step
\* where integration put it.
C6_GoalReset ==
    [][IsUpdate =>
         LET i == Integrated(ball) IN
         IF BeyondGoal(i.x)
         THEN ball'.x = Zero /\ ball'.y = Zero /\ ball'.dx = Neg(ball.dx)
         ELSE ball'.x = i.x /\ ball'.y = i.y]_vars

\* the ball has been put back at the origin and is moving left
C6_Witness ==
    /\ ticks > 0
    /\ ball.x = Zero /\ ball.y = Zero
    /\ ball.dx = Neg(BallSpeed)

\* the exact product n * a, n a small natural number, by doubling
RECURSIVE ExactTimes(_, _)
ExactTimes(n, a) ==
    IF n = 0 THEN Zero
    ELSE LET h == ExactTimes(n \div 2, a)
             d == ExactAdd(h, h)
         IN  IF n % 2 = 1 THEN ExactAdd(d, a) ELSE d

\* n * a of the source: the exact product rounded to binary64

Times(n, a) == Round(ExactTimes(n, a))

\* no key is down
NoKeyHeld == \A k \in DOMAIN keys : ~keys[k]

\* C7 as stated: with no key ever held, after n <= 50 steps the ball is at
\* exactly (n*0.01, n*0.01), (0.5, 0.5) after 50, dx = dy = 0.01 and both
\* paddles are at y = 0.
C7_Original ==
    ticks <= 50 =>
        /\ ball.x = Times(ticks, BallSpeed)
        /\ ball.y = Times(ticks, BallSpeed)
        /\ ticks = 50 => ball.x = Half(One) /\ ball.y = Half(One)
        /\ ball.dx = BallSpeed /\ ball.dy = BallSpeed
        /\ paddles.left.y = Zero /\ paddles.right.y = Zero

\* 0.5000000000000002 = 0x1.0000000000002p-1
C7_After50 == [hi |-> 268435456, lo |-> 128]

\* C7 amended: with no key ever held, after n <= 50 steps the ball's x and
\* y are equal and within 2^-51 of n times 0.01, they are
\* 0.5000000000000002 after 50 steps, dx = dy = 0.01 and both paddles are
\* at y = 0.
C7_ClosedForm ==
    ticks <= 50 =>
        /\ ball.x = ball.y
        /\ Lt(Abs(ExactAdd(ball.x, Neg(ExactTimes(ticks, BallSpeed)))),
              [hi |-> 0, lo |-> 2^8])
        /\ ticks = 50 => ball.x = C7_After50
        /\ ball.dx = BallSpeed /\ ball.dy = BallSpeed
        /\ paddles.left.y = Zero /\ paddles.right.y = Zero

\* fifty steps have run
C7_Witness == ticks = 50 /\ NoKeyHeld /\ ball.x = C7_After50

\* C8: in every reachable state the ball is less than one vertical step
\* beyond the top or bottom boundary:
\* y - (1 - size) < |dy| and (-1 + size) - y < |dy|.
C8_OvershootBelowOneStep ==
    /\ Lt(Fsub(ball.y, Fsub(One, ball.size)), Abs(ball.dy))
    /\ Lt(Fsub(Fadd(Neg(One), ball.size), ball.y), Abs(ball.dy))

\* the ball is beyond the bottom boundary
C8_Witness == Lt(ball.y, Fadd(Neg(One), ball.size)) /\ ticks > 0

\* C9: a key event for k changes nothing but the entry of k; update()
\* leaves the key mapping, each paddle's x, width and height and the
\* ball's size unchanged.
C9_Frames ==
    [][/\ IsKeyEvent =>
            /\ paddles' = paddles /\ ball' = ball
            /\ \E k \in Keys :
                 /\ DOMAIN keys' = DOMAIN keys \cup {k}
                 /\ \A j \in DOMAIN keys \ {k} : keys'[j] = keys[j]
       /\ IsUpdate =>
            /\ keys' = keys
            /\ \A s \in Sides :
                 /\ paddles'[s].x = paddles[s].x
                 /\ paddles'[s].width = paddles[s].width
                 /\ paddles'[s].height = paddles[s].height
            /\ ball'.size = ball.size]_vars

\* a key the game does not read is down next to one it does, after frames
\* in which a paddle moved
C9_Witness ==
    /\ Held(keys, "Enter") /\ Held(keys, "w")
    /\ ticks > 1
    /\ Gt(paddles.left.y, Zero)

\* C10: whenever a step resets the ball, a reset caused by x > 1 leaves
\* dx negative and one caused by x < -1 leaves dx positive; after every
\* step the ball's x is in [-1, 1] and |dx| = |dy| = 0.01.
C10_ServedAway ==
    [][IsUpdate =>
         LET i == Integrated(ball) IN
         /\ Gt(i.x, One) => Lt(ball'.dx, Zero)
         /\ Lt(i.x, Neg(One)) => Gt(ball'.dx, Zero)
         /\ Le(Neg(One), ball'.x) /\ Le(ball'.x, One)
         /\ Abs(ball'.dx) = BallSpeed /\ Abs(ball'.dy) = BallSpeed]_vars

\* the ball left on the left and is served to the right
C10_Witness ==
    /\ ticks > 0
    /\ ball.x = Zero /\ ball.y = Zero
    /\ ball.dx = BallSpeed

=============================================================================
